---------------------------- MODULE Spec2Model ----------------------------
(***************************************************************************)
(* A model of the resilience core of AZF2S-Express:                        *)
(*   - retryOperation / withDatabaseRetry / withNetworkRetry               *)
(*     (middleware/retryPolicy.js, src/unnamed/part_000),                  *)
(*   - the MongoDB connection manager (src/third_party/mongodb.js),        *)
(*   - the NodeBB session bridge and proxy (src/third_party/nodebb.js and  *)
(*     its sibling revision src/unnamed/part_008).                         *)
(*   - the session-validation middleware                                   *)
(*     (src/middleware/validateSession.js, lines 65-119).                  *)
(* Each component has its own specification (SpecRetry, SpecMongo,         *)
(* SpecNodeBB, SpecValidate); the variables of the other components stay   *)
(* at their initial values.                                                *)
(***************************************************************************)
EXTENDS Integers, Sequences, FiniteSets, TLC

VARIABLES
    \* ---- retryPolicy.js: one call of retryOperation (possibly via a wrapper)
    retry,
    \* ---- mongodb.js: module-level state and the in-flight callers
    client, connected, db, lastError, mstat, proc,
    \* ---- nodebb.js: the local session store and the call in flight
    variant, session, call,
    \* ---- validateSession.js: the middleware call in flight
    mw

retryVars == <<retry>>
mongoVars == <<client, connected, db, lastError, mstat, proc>>
nodebbVars == <<variant, session, call>>
validateVars == <<mw>>
vars == <<retry, client, connected, db, lastError, mstat, proc, variant, session, call, mw>>

Min(a, b) == IF a < b THEN a ELSE b

RECURSIVE Pow(_, _)
Pow(b, e) == IF e = 0 THEN 1 ELSE b * Pow(b, e - 1)

(***************************************************************************)
(* JavaScript optional numbers.  An option field is a set holding at most  *)
(* one number: {} is an absent (undefined) field.  `x || d` yields d for   *)
(* every falsy x, that is for undefined and for 0.                         *)
(***************************************************************************)
Absent == {}
Some(n) == {n}
TheValue(o) == CHOOSE n \in o : TRUE
OrDefault(o, d) == IF o = Absent \/ o = Some(0) THEN d ELSE TheValue(o)

\* ========================================================================
\*  retryPolicy.js
\* ========================================================================

\* Bounds of the retry model.
MaxRetriesOpt == 4      \* largest options.maxRetries tried
MaxFailures == 5        \* the operation fails its first k <= MaxFailures invocations
MaxDelayOpt == 15       \* the options.maxDelay a caller may pass (ms)

\* Defaults written in the source.  Factors are rationals <<num, den>>.
DefaultMaxRetries == 3
RetryInitialDelay == 1000
DbInitialDelay == 500
NetInitialDelay == 200
TestInitialDelay == 10

FactorTwo == <<2, 1>>
FactorOneAndHalf == <<3, 2>>
FactorOne == <<1, 1>>
AbsentFactor == <<0, 1>>
FactorOrDefault(f, d) == IF f[1] = 0 THEN d ELSE f

\* The three entry points and the option objects the model passes in.
Wrappers == {"retryOperation", "withDatabaseRetry", "withNetworkRetry"}
MaxRetriesOptions == {Absent} \cup {Some(n) : n \in -1 .. MaxRetriesOpt}
DelayOptions == {Absent, Some(TestInitialDelay)}
FactorOptions == {AbsentFactor, FactorOne}
MaxDelayOptions == {Absent, Some(MaxDelayOpt)}
RetryOptions ==
    [maxRetries : MaxRetriesOptions, initialDelay : DelayOptions, factor : FactorOptions,
     maxDelay : MaxDelayOptions]

\* withDatabaseRetry builds retryOptions from its options (lines 152-156).
DatabaseRetryOptions(options) ==
    [maxRetries |-> Some(OrDefault(options.maxRetries, DefaultMaxRetries)),
     initialDelay |-> Some(OrDefault(options.initialDelay, DbInitialDelay)),
     factor |-> FactorOrDefault(options.factor, FactorOneAndHalf)]

\* withNetworkRetry builds retryOptions from its options (lines 171-175).
NetworkRetryOptions(options) ==
    [maxRetries |-> Some(OrDefault(options.maxRetries, DefaultMaxRetries)),
     initialDelay |-> Some(OrDefault(options.initialDelay, NetInitialDelay)),
     factor |-> FactorOrDefault(options.factor, FactorTwo)]

\* The options retryOperation finally receives.
EffectiveOptions(wrapper, options) ==
    CASE wrapper = "withDatabaseRetry" -> DatabaseRetryOptions(options)
      [] wrapper = "withNetworkRetry" -> NetworkRetryOptions(options)
      [] OTHER -> options

\* retryOperation lines 113-115.
RetryMaxRetries(options) == OrDefault(options.maxRetries, DefaultMaxRetries)
RetryDelay0(options) == OrDefault(options.initialDelay, RetryInitialDelay)
RetryFactor(options) == FactorOrDefault(options.factor, FactorTwo)

\* line 132: delay = initialDelay * Math.pow(factor, attempt - 1), an exact rational.
BackoffDelay(initialDelay, factor, attempt) ==
    <<initialDelay * Pow(factor[1], attempt - 1), Pow(factor[2], attempt - 1)>>

\* The operation under retry: invocation number n throws iff n <= failFirst or it
\* always fails.  Every invocation throws its own error object.
NoError == [id |-> 0, message |-> "undefined"]
OpError(n) == [id |-> n, message |-> "operation failed"]
OpFails(op, n) == op.always \/ n <= op.failFirst
OpValue == "success"
NoValue == "none"

RetryInit ==
    retry \in [pc : {"start"},
               wrapper : Wrappers,
               options : RetryOptions,
               op : [failFirst : 0 .. MaxFailures, always : BOOLEAN],
               maxRetries : {0}, initialDelay : {0}, factor : {AbsentFactor},
               attempt : {0}, lastError : {NoError},
               calls : {0}, thrown : {<<>>}, waits : {<<>>},
               result : {NoValue}, error : {NoError}]

\* Lines 113-120: read the options, then the first evaluation of the loop condition.
RetryStart ==
    /\ retry.pc = "start"
    /\ LET o == EffectiveOptions(retry.wrapper, retry.options)
           m == RetryMaxRetries(o)
       IN retry' = [retry EXCEPT !.maxRetries = m,
                                 !.initialDelay = RetryDelay0(o),
                                 !.factor = RetryFactor(o),
                                 !.pc = IF 0 < m THEN "invoke" ELSE "thrown",
                                 !.error = IF 0 < m THEN NoError ELSE retry.lastError]
    /\ UNCHANGED <<mongoVars, nodebbVars, validateVars>>

\* Two slips of the catch block: giving up one attempt early, and rethrowing a
\* wrapped error instead of the operation's own.
AfterFailureEarly(r, e) ==
    LET a == r.attempt + 1
        base == [r EXCEPT !.calls = r.calls + 1, !.thrown = Append(r.thrown, e),
                          !.lastError = e, !.attempt = a]
    IN IF a + 1 >= r.maxRetries
       THEN [base EXCEPT !.pc = "thrown", !.error = e]
       ELSE [base EXCEPT !.pc = "waiting"]

AfterFailureWrapped(r, e) ==
    LET a == r.attempt + 1
        base == [r EXCEPT !.calls = r.calls + 1, !.thrown = Append(r.thrown, e),
                          !.lastError = e, !.attempt = a]
    IN IF a >= r.maxRetries
       THEN [base EXCEPT !.pc = "thrown",
                         !.error = [id |-> 0, message |-> "retries exhausted"]]
       ELSE [base EXCEPT !.pc = "waiting"]

\* Lines 121-136: one invocation of the operation and what follows it, up to the wait.
AfterFailure(r, e) ==
    LET a == r.attempt + 1
        base == [r EXCEPT !.calls = r.calls + 1, !.thrown = Append(r.thrown, e),
                          !.lastError = e, !.attempt = a]
    IN IF a >= r.maxRetries
       THEN [base EXCEPT !.pc = "thrown", !.error = e]
       ELSE [base EXCEPT !.pc = "waiting"]

RetryInvoke ==
    /\ retry.pc = "invoke"
    /\ LET n == retry.calls + 1
       IN retry' = IF OpFails(retry.op, n)
                   THEN AfterFailure(retry, OpError(n))
                   ELSE [retry EXCEPT !.calls = n, !.pc = "returned", !.result = OpValue]
    /\ UNCHANGED <<mongoVars, nodebbVars, validateVars>>

\* Line 135 and the re-evaluation of the loop condition (line 120).
RetryWait ==
    /\ retry.pc = "waiting"
    /\ retry' = [retry EXCEPT
           !.waits = Append(retry.waits, BackoffDelay(retry.initialDelay, retry.factor, retry.attempt)),
           !.pc = IF retry.attempt < retry.maxRetries THEN "invoke" ELSE "thrown",
           !.error = IF retry.attempt < retry.maxRetries THEN NoError ELSE retry.lastError]
    /\ UNCHANGED <<mongoVars, nodebbVars, validateVars>>

RetryIdle == retry = [pc |-> "idle"]


\* ========================================================================
\*  third_party/mongodb.js
\* ========================================================================

\* Connection retry settings (RETRY, lines 85-89).
MAX_ATTEMPTS == 3
INITIAL_BACKOFF_MS == 1000
MAX_BACKOFF_MS == 10000

\* The callers of the module, and how many calls one caller makes in a row.
Callers == {1, 2}
MaxCalls == 3

\* Error messages are sequences of words; String.prototype.includes is the search
\* for a contiguous run of words, case-sensitive as in JavaScript.
Includes(message, pattern) ==
    \E i \in 0 .. (Len(message) - Len(pattern)) :
        SubSeq(message, i + 1, i + Len(pattern)) = pattern

Err(message, code) == [message |-> message, code |-> code]
NoMongoError == Err(<<>>, 0)

\* What the driver may raise from client.connect() and from collection.stats().
HandshakeErrors ==
    {Err(<<"getaddrinfo", "ENOTFOUND", "host">>, 0),
     Err(<<"connect", "ECONNREFUSED">>, 0)}
StatsErrors ==
    {Err(<<"connection", "closed">>, 0),
     Err(<<"not", "authorized", "on", "db">>, 13),
     Err(<<"bad", "auth">>, 18),
     Err(<<"ns", "not", "found">>, 26)}
MissingParams == Err(<<"Missing", "required", "MongoDB", "parameters">>, 0)
NullDatabase == Err(<<"Cannot", "read", "properties", "of", "null">>, 0)

\* The module state as one value, for the synchronous stretches of code that read
\* and write it between two awaits.
Mod == [client |-> client, connected |-> connected, db |-> db,
        lastError |-> lastError, stat |-> mstat]

SetMod(m) ==
    /\ client' = m.client
    /\ connected' = m.connected
    /\ db' = m.db
    /\ lastError' = m.lastError
    /\ mstat' = m.stat

\* An initialize that constructs the client whatever the parameters.
InitializeUnchecked(m) ==
    [ok |-> TRUE,
     m |-> [m EXCEPT !.client = m.stat.clients + 1, !.stat.clients = m.stat.clients + 1]]

\* initialize (lines 98-111): getMongoURL throws when parameters are missing
\* (lines 48-52); otherwise a new client object is constructed, never connected.
Initialize(m) ==
    IF m.stat.configOK
    THEN [ok |-> TRUE,
          m |-> [m EXCEPT !.client = m.stat.clients + 1,
                          !.stat.clients = m.stat.clients + 1]]
    ELSE [ok |-> FALSE, m |-> [m EXCEPT !.lastError = MissingParams]]

BlankFrame ==
    [op |-> "none", name |-> "", pc |-> "idle", stack |-> <<>>,
     attempts |-> 0, backoff |-> 0,
     out |-> "none", val |-> 0, flag |-> FALSE, cmd |-> "none",
     err |-> NoMongoError, cause |-> NoMongoError,
     hs |-> 0, log |-> <<>>, resets |-> 0, reconnects |-> 0, calls |-> 0]

Returned(f, stack, v) ==
    [f EXCEPT !.pc = "resume", !.stack = stack, !.out = "value", !.val = v,
              !.attempts = 0, !.backoff = 0]
Thrown(f, stack, e) ==
    [f EXCEPT !.pc = "resume", !.stack = stack, !.out = "throw", !.err = e,
              !.attempts = 0, !.backoff = 0]

\* The call client.connect() (line 130): the handshake is started, then awaited.
StartHandshake(f, m) ==
    [f |-> [f EXCEPT !.pc = "c_handshake", !.hs = f.hs + 1],
     m |-> [m EXCEPT !.stat.handshakes = m.stat.handshakes + 1]]

\* A connect that does not look at the connection state.
AlreadyConnectedNever(m) == FALSE

\* if (connected && db) (line 121)
AlreadyConnected(m) == m.connected /\ m.db # 0

\* A ceiling test that lets one more attempt through.
ExhaustedLate(attempts) == attempts > MAX_ATTEMPTS

\* if (attempts >= RETRY.MAX_ATTEMPTS) (line 143)
Exhausted(attempts) == attempts >= MAX_ATTEMPTS

\* connect, from its entry to its first await (lines 115-130).
CallConnect(f, m, stack) ==
    LET i == IF m.client = 0 THEN Initialize(m) ELSE [ok |-> TRUE, m |-> m]
    IN IF ~i.ok
       THEN [f |-> Thrown(f, stack,
                     Err(<<"Cannot", "initialize", "MongoDB", "client:">> \o i.m.lastError.message, 0)),
             m |-> i.m]
       ELSE IF AlreadyConnected(i.m)
       THEN [f |-> Returned(f, stack, i.m.client), m |-> i.m]
       ELSE StartHandshake([f EXCEPT !.stack = stack, !.attempts = 0,
                                     !.backoff = INITIAL_BACKOFF_MS], i.m)

\* getDB, from its entry to its first await (lines 161-165).
CallGetDB(f, m, stack) ==
    IF ~m.connected \/ m.db = 0
    THEN CallConnect(f, m, Append(stack, "getDB"))
    ELSE [f |-> Returned(f, Append(stack, "getDB"), m.db), m |-> m]

\* A catch block without the authentication branch.
IsAuthErrorNever(error) == FALSE

\* The catch block of getCollection (lines 182-211), entered with `error`.
IsAuthError(error) ==
    \/ Includes(error.message, <<"Authentication", "failed">>)
    \/ Includes(error.message, <<"not", "authorized">>)
    \/ error.code = 18

IsConnectionError(error) ==
    \/ Includes(error.message, <<"failed", "to", "connect">>)
    \/ Includes(error.message, <<"connection", "closed">>)
    \/ Includes(error.message, <<"getaddrinfo">>)

CatchGetCollection(f0, m, error, stack) ==
    LET f == [f0 EXCEPT !.cause = error]
    IN
    IF IsAuthError(error)
    THEN [f |-> Thrown(f, stack,
                  Err(<<"Authentication", "failed", "for", "collection", f.name>> \o error.message, 0)),
          m |-> m]
    ELSE IF IsConnectionError(error)
    THEN CallConnect([f EXCEPT !.resets = f.resets + 1, !.reconnects = f.reconnects + 1,
                               !.log = Append(f.log, "reset")],
                     [m EXCEPT !.connected = FALSE, !.db = 0],
                     Append(stack, "gc:reconnect"))
    ELSE [f |-> Thrown(f, stack,
                  Err(<<"Failed", "to", "get", "collection", f.name>> \o error.message, 0)),
          m |-> m]

Apply(p, r) ==
    /\ proc' = [proc EXCEPT ![p] = r.f]
    /\ SetMod(r.m)

\* module.exports = { client, connect, ... } (lines 241-266): the object literal copies
\* the value `client` holds when the statement runs; `exported` keeps that copy.
ModuleExports(m) == [m EXCEPT !.stat.exported = m.client]

\* ---- the module after load: `let client; let connected = false; let db;`, the
\* ---- exports statement, then the initialize() call of line 269.
MongoInit ==
    \E ok \in BOOLEAN :
        LET blank == [client |-> 0, connected |-> FALSE, db |-> 0, lastError |-> NoMongoError,
                      stat |-> [configOK |-> ok, clients |-> 0, handshakes |-> 0, closes |-> 0,
                                exported |-> 0]]
            m == Initialize(ModuleExports(blank)).m
        IN /\ client = m.client
           /\ connected = m.connected
           /\ db = m.db
           /\ lastError = m.lastError
           /\ mstat = m.stat
           /\ proc = [p \in Callers |-> BlankFrame]

\* ---- a caller calls connect()
MongoConnect(p) ==
    /\ proc[p].pc = "idle"
    /\ Apply(p, CallConnect([proc[p] EXCEPT !.op = "connect"], Mod, <<>>))
    /\ UNCHANGED <<retryVars, nodebbVars, validateVars>>

\* ---- a caller calls getDB()
MongoGetDB(p) ==
    /\ proc[p].pc = "idle"
    /\ Apply(p, CallGetDB([proc[p] EXCEPT !.op = "getDB"], Mod, <<>>))
    /\ UNCHANGED <<retryVars, nodebbVars, validateVars>>

\* ---- a caller calls getCollection(name) (lines 169-175)
MongoGetCollection(p) ==
    /\ proc[p].pc = "idle"
    /\ \E name \in {"", "objects"} :
        LET f == [proc[p] EXCEPT !.op = "getCollection", !.name = name]
        IN IF name = ""
           THEN Apply(p, [f |-> Thrown(f, <<>>, Err(<<"Collection", "name", "is", "required">>, 0)),
                          m |-> Mod])
           ELSE Apply(p, CallGetDB(f, Mod, <<"gc:getDB">>))
    /\ UNCHANGED <<retryVars, nodebbVars, validateVars>>

\* ---- client.connect() settles (lines 130-149)
HandshakeOk(p) ==
    /\ proc[p].pc = "c_handshake"
    /\ LET f == [proc[p] EXCEPT !.log = Append(proc[p].log, "ok")]
           m == [Mod EXCEPT !.connected = TRUE, !.db = client]
       IN Apply(p, [f |-> Returned(f, f.stack, client), m |-> m])
    /\ UNCHANGED <<retryVars, nodebbVars, validateVars>>

\* ---- client.connect() resolves, then getConfig() or client.db() throws inside the
\* ---- try block (lines 130-135): `connected = true` is already done when the catch
\* ---- block (lines 138-149) counts the attempt.
DbStepErrors ==
    {MissingParams,
     Err(<<"database", "names", "cannot", "contain", "the", "character">>, 0)}

HandshakeOkDbFails(p) ==
    /\ proc[p].pc = "c_handshake"
    /\ \E error \in DbStepErrors :
        LET f == [proc[p] EXCEPT !.log = Append(proc[p].log, "fail"),
                                 !.attempts = proc[p].attempts + 1]
            m == [Mod EXCEPT !.connected = TRUE, !.lastError = error]
        IN IF Exhausted(f.attempts)
           THEN Apply(p, [f |-> Thrown(f, f.stack,
                                  Err(<<"Failed", "to", "connect", "to", "MongoDB:">> \o error.message, 0)),
                          m |-> m])
           ELSE Apply(p, [f |-> [f EXCEPT !.pc = "c_backoff"], m |-> m])
    /\ UNCHANGED <<retryVars, nodebbVars, validateVars>>

HandshakeFails(p) ==
    /\ proc[p].pc = "c_handshake"
    /\ \E error \in HandshakeErrors :
        LET f == [proc[p] EXCEPT !.log = Append(proc[p].log, "fail"),
                                 !.attempts = proc[p].attempts + 1]
            m == [Mod EXCEPT !.lastError = error]
        IN IF Exhausted(f.attempts)
           THEN Apply(p, [f |-> Thrown(f, f.stack,
                                  Err(<<"Failed", "to", "connect", "to", "MongoDB:">> \o error.message, 0)),
                          m |-> m])
           ELSE Apply(p, [f |-> [f EXCEPT !.pc = "c_backoff"], m |-> m])
    /\ UNCHANGED <<retryVars, nodebbVars, validateVars>>

\* ---- the backoff timer fires (lines 149-155), the loop goes round (lines 128-130)
Jitter == {900, 1099}
BackoffElapsed(p) ==
    /\ proc[p].pc = "c_backoff"
    /\ \E j \in Jitter :
        LET f == [proc[p] EXCEPT
                     !.backoff = Min(MAX_BACKOFF_MS, (proc[p].backoff * 2 * j) \div 1000)]
        IN Apply(p, StartHandshake(f, Mod))
    /\ UNCHANGED <<retryVars, nodebbVars, validateVars>>

Pop(stack) == SubSeq(stack, 1, Len(stack) - 1)
Top(stack) == stack[Len(stack)]

\* ---- getDB resumes after `await connect()` (lines 163-165)
ResumeGetDB(p) ==
    /\ proc[p].pc = "resume"
    /\ proc[p].stack # <<>>
    /\ Top(proc[p].stack) = "getDB"
    /\ LET f == proc[p]
       IN Apply(p, [f |-> IF f.out = "throw"
                          THEN Thrown(f, Pop(f.stack), f.err)
                          ELSE Returned(f, Pop(f.stack), db),
                    m |-> Mod])
    /\ UNCHANGED <<retryVars, nodebbVars, validateVars>>

\* ---- getCollection resumes after `await getDB()` (lines 175-179, 182)
ResumeGetCollection(p) ==
    /\ proc[p].pc = "resume"
    /\ proc[p].stack # <<>>
    /\ Top(proc[p].stack) = "gc:getDB"
    /\ LET f == proc[p]
           below == Pop(f.stack)
       IN IF f.out = "throw"
          THEN Apply(p, CatchGetCollection(f, Mod, f.err, below))
          ELSE IF f.val = 0
          THEN Apply(p, CatchGetCollection(f, Mod, NullDatabase, below))
          ELSE Apply(p, [f |-> [f EXCEPT !.pc = "gc_stats", !.stack = below], m |-> Mod])
    /\ UNCHANGED <<retryVars, nodebbVars, validateVars>>

\* ---- collection.stats() settles (lines 179-182)
StatsOk(p) ==
    /\ proc[p].pc = "gc_stats"
    /\ Apply(p, [f |-> Returned(proc[p], proc[p].stack, proc[p].val), m |-> Mod])
    /\ UNCHANGED <<retryVars, nodebbVars, validateVars>>

StatsFails(p) ==
    /\ proc[p].pc = "gc_stats"
    /\ \E error \in StatsErrors :
        Apply(p, CatchGetCollection(proc[p], Mod, error, proc[p].stack))
    /\ UNCHANGED <<retryVars, nodebbVars, validateVars>>

\* ---- collection.stats() finds the connection dropped (lines 179-182, 192-202)
StatsDropped(p) ==
    /\ proc[p].pc = "gc_stats"
    /\ Apply(p, CatchGetCollection(proc[p], Mod, Err(<<"connection", "closed">>, 0),
                                   proc[p].stack))
    /\ UNCHANGED <<retryVars, nodebbVars, validateVars>>

\* ---- the catch block resumes after `await connect()` (lines 202-203, 205-206)
ReconnectError(e) == Err(<<"Failed", "to", "reconnect", "to", "MongoDB:">> \o e.message, 0)

ResumeReconnect(p) ==
    /\ proc[p].pc = "resume"
    /\ proc[p].stack # <<>>
    /\ Top(proc[p].stack) = "gc:reconnect"
    /\ LET f == proc[p]
           below == Pop(f.stack)
       IN IF f.out = "throw"
          THEN Apply(p, [f |-> Thrown(f, below, ReconnectError(f.err)), m |-> Mod])
          ELSE Apply(p, CallGetDB(f, Mod, Append(below, "gc:getDB2")))
    /\ UNCHANGED <<retryVars, nodebbVars, validateVars>>

\* ---- the catch block resumes after its `await getDB()` (lines 203-206)
ResumeReconnectGetDB(p) ==
    /\ proc[p].pc = "resume"
    /\ proc[p].stack # <<>>
    /\ Top(proc[p].stack) = "gc:getDB2"
    /\ LET f == proc[p]
           below == Pop(f.stack)
       IN Apply(p, [f |-> IF f.out = "throw" THEN Thrown(f, below, ReconnectError(f.err))
                          ELSE IF f.val = 0 THEN Thrown(f, below, ReconnectError(NullDatabase))
                          ELSE Returned(f, below, f.val),
                    m |-> Mod])
    /\ UNCHANGED <<retryVars, nodebbVars, validateVars>>

\* ---- a caller calls ping() (lines 230-232)
MongoPing(p) ==
    /\ proc[p].pc = "idle"
    /\ Apply(p, CallGetDB([proc[p] EXCEPT !.op = "ping"], Mod, <<"ping:getDB">>))
    /\ UNCHANGED <<retryVars, nodebbVars, validateVars>>

\* ping's value: a boolean.
ReturnedFlag(f, stack, b) == [Returned(f, stack, 0) EXCEPT !.flag = b]

\* What database.command({ ping: 1 }) may do: answer { ok: 1 }, answer without
\* ok = 1, or reject.
PingAnswers == {"ok1", "ok0", "throw"}

\* A probe that reports every answer as healthy.
PingResultAny(answer) == TRUE

\* return result?.ok === 1, and the catch's return false (lines 234-238)
PingResult(answer) == answer = "ok1"

\* ---- ping resumes after `await getDB()` (lines 232-233, 235-237)
ResumePing(p) ==
    /\ proc[p].pc = "resume"
    /\ proc[p].stack # <<>>
    /\ Top(proc[p].stack) = "ping:getDB"
    /\ LET f == proc[p]
           below == Pop(f.stack)
       IN Apply(p, [f |-> IF f.out = "throw" \/ f.val = 0
                          THEN ReturnedFlag(f, below, FALSE)
                          ELSE [f EXCEPT !.pc = "p_command", !.stack = below],
                    m |-> Mod])
    /\ UNCHANGED <<retryVars, nodebbVars, validateVars>>

\* ---- database.command({ ping: 1 }) settles (lines 233-238)
PingAnswered(p) ==
    /\ proc[p].pc = "p_command"
    /\ \E answer \in PingAnswers :
        Apply(p, [f |-> ReturnedFlag([proc[p] EXCEPT !.cmd = answer], proc[p].stack,
                                     PingResult(answer)),
                  m |-> Mod])
    /\ UNCHANGED <<retryVars, nodebbVars, validateVars>>

\* A disconnect that closes whatever the state.
NeedsCloseAlways(m) == TRUE

\* if (client && connected) (line 216)
NeedsClose(m) == m.client # 0 /\ m.connected

\* ---- a caller calls disconnect() (lines 215-218)
MongoDisconnect(p) ==
    /\ proc[p].pc = "idle"
    /\ LET f == [proc[p] EXCEPT !.op = "disconnect"]
       IN IF NeedsClose(Mod)
          THEN Apply(p, [f |-> [f EXCEPT !.pc = "d_close"],
                         m |-> [Mod EXCEPT !.stat.closes = mstat.closes + 1]])
          ELSE Apply(p, [f |-> Returned(f, <<>>, 0), m |-> Mod])
    /\ UNCHANGED <<retryVars, nodebbVars, validateVars>>

\* ---- client.close() settles (lines 218-225)
CloseErrors == {Err(<<"Topology", "is", "closed">>, 0)}

CloseOk(p) ==
    /\ proc[p].pc = "d_close"
    /\ Apply(p, [f |-> Returned(proc[p], proc[p].stack, 0),
                  m |-> [Mod EXCEPT !.connected = FALSE, !.db = 0]])
    /\ UNCHANGED <<retryVars, nodebbVars, validateVars>>

CloseFails(p) ==
    /\ proc[p].pc = "d_close"
    /\ \E error \in CloseErrors :
        Apply(p, [f |-> Thrown(proc[p], proc[p].stack,
                        Err(<<"Failed", "to", "disconnect", "from", "MongoDB:">> \o error.message, 0)),
                  m |-> Mod])
    /\ UNCHANGED <<retryVars, nodebbVars, validateVars>>

\* ---- the caller's own await settles: the call is over
MongoSettle(p) ==
    /\ proc[p].pc = "resume"
    /\ proc[p].stack = <<>>
    /\ proc' = [proc EXCEPT ![p].pc = "done", ![p].calls = proc[p].calls + 1]
    /\ UNCHANGED <<client, connected, db, lastError, mstat, retryVars, nodebbVars, validateVars>>

\* ---- the caller goes on to its next call
MongoAgain(p) ==
    /\ proc[p].pc = "done"
    /\ proc[p].calls < MaxCalls
    /\ proc' = [proc EXCEPT ![p] = [BlankFrame EXCEPT !.calls = proc[p].calls]]
    /\ UNCHANGED <<client, connected, db, lastError, mstat, retryVars, nodebbVars, validateVars>>

\* ========================================================================
\*  third_party/nodebb.js (revision "A") and src/unnamed/part_008 (revision "B")
\* ========================================================================

Variants == {"A", "B"}

\* How many calls (logins, proxied requests) one client makes in a row.
MaxRequests == 3

\* ---- JavaScript values ------------------------------------------------
\* A string-typed value that may be null/undefined; "" is falsy too.
NULL == "<null>"
TruthyStr(x) == x # NULL /\ x # ""

\* A cookie list that may be null/undefined.  An array, even an empty one, is truthy.
NoCookies == [isNull |-> TRUE, items |-> <<>>]
CookieList(items) == [isNull |-> FALSE, items |-> items]
Truthy(c) == ~c.isNull
Cookie(name, value) == [name |-> name, value |-> value]
CookieText(c) == c.name \o "=" \o c.value

\* cookies?.[0] (part_008 line 294)
FirstCookie(c) == ~c.isNull /\ Len(c.items) >= 1

\* Array.prototype.join('; ')
RECURSIVE JoinItems(_)
JoinItems(items) ==
    IF items = <<>> THEN ""
    ELSE IF Len(items) = 1 THEN CookieText(items[1])
    ELSE CookieText(items[1]) \o "; " \o JoinItems(Tail(items))
Join(c) == IF c.isNull THEN NULL ELSE JoinItems(c.items)

\* `a || b` on cookie lists
OrCookies(a, b) == IF Truthy(a) THEN a ELSE b
OrStr(a, b) == IF TruthyStr(a) THEN a ELSE b

\* ---- what the upstream may answer ---------------------------------------
Tokens == {"tA", "tB"}
SetCookieValues == {NoCookies, CookieList(<<Cookie("express.sid", "3")>>)}
ConfigSetCookieValues == {NoCookies, CookieList(<<Cookie("express.sid", "2")>>)}

\* GET /api/config: 200 with a token, 200 without one, or a rejected axios.get
\* (no answer, or an error status), which getCsrfToken rethrows.
FetchOutcomes ==
    [kind : {"ok"}, token : Tokens, setCookie : ConfigSetCookieValues]
        \cup {[kind |-> "notoken", token |-> NULL, setCookie |-> NoCookies],
              [kind |-> "throw", token |-> NULL, setCookie |-> NoCookies]}

\* A response: status 0 stands for "no response" (timeout, reset).
NoBody == [ok |-> FALSE, user |-> FALSE, userCsrf |-> NULL, uid |-> FALSE]
Resp(status, setCookie, body) == [status |-> status, setCookie |-> setCookie, body |-> body]
NoResp == Resp(0, NoCookies, NoBody)
ErrorResponses == {Resp(st, NoCookies, NoBody) : st \in {0, 401, 403, 500}}
ForwardResponses == {Resp(200, sc, NoBody) : sc \in SetCookieValues} \cup ErrorResponses
LoginResponses ==
    {Resp(200, sc, [ok |-> TRUE, user |-> u, userCsrf |-> t, uid |-> FALSE]) :
        sc \in {NoCookies, CookieList(<<Cookie("express.sid", "1")>>), CookieList(<<Cookie("lang", "en")>>)},
        u \in BOOLEAN, t \in {NULL, "tU"}}
        \cup {Resp(200, NoCookies, NoBody)}
        \cup ErrorResponses
ProfileResponses ==
    {Resp(200, NoCookies, [ok |-> FALSE, user |-> FALSE, userCsrf |-> NULL, uid |-> u]) : u \in BOOLEAN}
        \cup ErrorResponses
ResponsesFor(url) ==
    CASE url = "login" -> LoginResponses
      [] url = "profile" -> ProfileResponses
      [] OTHER -> ForwardResponses
IsAuthStatus(st) == st = 401 \/ st = 403

\* ---- getCsrfToken (A: lines 22-48, B: part_008 lines 22-48) -----------------
\* The value returned (or the throw) for the cookies passed in and the answer `o`.
GetCsrfToken(v, cookies, o) ==
    CASE o.kind = "throw" -> [threw |-> TRUE, token |-> NULL, cookies |-> NoCookies]
      [] o.kind = "notoken" -> [threw |-> FALSE, token |-> NULL, cookies |-> NoCookies]
      [] OTHER ->
           [threw |-> FALSE, token |-> o.token,
            cookies |-> IF v = "A" THEN OrCookies(o.setCookie, cookies)
                        ELSE OrCookies(cookies, o.setCookie)]

\* ---- the axios request configuration ------------------------------------------
BlankCfg ==
    [method |-> "GET", url |-> "none", data |-> FALSE, params |-> FALSE,
     sessionToken |-> NULL, sessionCookies |-> NoCookies,
     hToken |-> NULL, hCookie |-> NULL, retry |-> FALSE]

\* The request interceptor (A: lines 116-169, B: part_008 lines 88-130).
\* Does it call getCsrfToken?
NeedsFetch(v, cfg) ==
    IF v = "A" THEN ~TruthyStr(cfg.sessionToken)
    ELSE ~(TruthyStr(cfg.sessionToken) /\ Truthy(cfg.sessionCookies))

\* The headers it writes when the session data of the config is used.
InterceptDirect(v, cfg) ==
    IF v = "A"
    THEN [cfg EXCEPT !.hToken = cfg.sessionToken,
                     !.hCookie = IF Truthy(cfg.sessionCookies) THEN Join(cfg.sessionCookies)
                                 ELSE cfg.hCookie]
    ELSE [cfg EXCEPT !.hToken = cfg.sessionToken, !.hCookie = Join(cfg.sessionCookies)]

\* The headers it writes after getCsrfToken returned `res`.
InterceptFetched(v, cfg, res) ==
    IF v = "A"
    THEN LET sc == IF Truthy(res.cookies) THEN res.cookies ELSE cfg.sessionCookies
         IN [cfg EXCEPT !.sessionCookies = sc,
                        !.hToken = res.token,
                        !.hCookie = IF Truthy(sc) THEN Join(sc) ELSE cfg.hCookie]
    ELSE [cfg EXCEPT !.hToken = res.token,
                     !.hCookie = IF Truthy(res.cookies) THEN Join(res.cookies) ELSE cfg.hCookie]

\* B rejects the request when no token came back (part_008 lines 110-112).
InterceptRejects(v, res) == res.threw \/ (v = "B" /\ ~TruthyStr(res.token))

\* The response interceptor's refresh (A: lines 73-93, B: part_008 lines 64-72):
\* the config as it is handed to nodeBBAxios again.
RefreshConfig(v, cfg, res) ==
    IF v = "A" /\ Truthy(res.cookies)
    THEN [cfg EXCEPT !.hToken = res.token, !.hCookie = Join(res.cookies),
                     !.sessionCookies = res.cookies]
    ELSE [cfg EXCEPT !.hToken = res.token]

\* The inbound requests of the proxy mount: method, whether req.body holds a payload,
\* whether the URL carries a query string.
NoInbound == [method |-> "none", body |-> FALSE, query |-> FALSE]
InboundRequests ==
    {[method |-> "GET", body |-> FALSE, query |-> TRUE],
     [method |-> "POST", body |-> TRUE, query |-> FALSE],
     [method |-> "PUT", body |-> TRUE, query |-> FALSE],
     [method |-> "PATCH", body |-> TRUE, query |-> FALSE],
     [method |-> "DELETE", body |-> TRUE, query |-> FALSE]}

\* The data argument the handler passes to makeRequest: req.body or null
\* (A: line 410, B: part_008 line 309).
ProxyBody(req) == IF req.method \in {"POST", "PUT", "PATCH"} THEN req.body ELSE FALSE

\* makeRequest (A: lines 176-194, B: part_008 lines 135-152); config.params is never set.
MakeRequest(method, hasBody, s) ==
    [BlankCfg EXCEPT !.method = method, !.url = "forward",
                     !.data = hasBody /\ method # "GET",
                     !.sessionToken = IF s.hasNodeBB THEN s.csrfToken ELSE NULL,
                     !.sessionCookies = IF s.hasNodeBB THEN s.cookies ELSE NoCookies]

\* ---- one call of the client: a login or a proxied request -------------------------
\* Request 1 is the client's sequence of calls; 2 and 3 are proxied requests that may
\* be in flight together.
Reqs == {1, 2, 3}

BlankCall ==
    [kind |-> "none", pc |-> "idle", cont |-> "none", inbound |-> NoInbound, cfg |-> BlankCfg,
     resp |-> NoResp, held |-> NoResp,
     csrfToken |-> NULL, initialCookies |-> NoCookies, loginCookies |-> NoCookies,
     loginResp |-> NoResp,
     stored |-> FALSE, cookieless |-> FALSE, repaired |-> FALSE, refused |-> FALSE,
     acquired |-> 0, fetches |-> 0, refreshes |-> 0, fresh |-> NULL, sent |-> 0, posts |-> 0,
     status |-> 0, outcome |-> "none", n |-> 0]

\* The record of the client's session in the session store.  `destroying`: a
\* store.destroy of it has been issued and has not landed; `loggedOut`: the logout
\* handler has answered for this session.
NoSession ==
    [authenticated |-> FALSE, username |-> NULL, hasNodeBB |-> FALSE,
     csrfToken |-> NULL, cookies |-> NoCookies, destroying |-> FALSE, loggedOut |-> FALSE]

\* The request leaves for the upstream with the headers of its config; `sent` counts
\* the requests of this call that left, `posts` the credential POSTs among them.
Send(c) ==
    [c EXCEPT !.pc = "sent", !.sent = c.sent + 1,
              !.posts = c.posts + (IF c.cfg.url = "login" THEN 1 ELSE 0)]

\* getCsrfToken up to its await (A: lines 22-30, B: part_008 lines 22-30): every call
\* issues the GET of the configuration endpoint.  `acquired` counts the calls,
\* `fetches` the GETs.
Acquire(c) == [c EXCEPT !.acquired = c.acquired + 1, !.fetches = c.fetches + 1]

\* A response interceptor that forgets the single-retry marker.
MarkRetryForgotten(cfg) == cfg

\* originalRequest._retry = true (A: line 71, B: part_008 line 62)
MarkRetry(cfg) == [cfg EXCEPT !.retry = TRUE]

\* Is this answer to the credential POST a refusal: a non-success status, or a body
\* whose status code is not "ok"?
Refusal(cfg, resp) == cfg.url = "login" /\ (resp.status # 200 \/ ~resp.body.ok)

\* this.api(config), up to its first await: the request interceptor either uses the
\* config's session data and the request is sent, or it calls getCsrfToken.
Dispatch(v, c) ==
    IF NeedsFetch(v, c.cfg)
    THEN Acquire([c EXCEPT !.pc = "tokenFetch"])
    ELSE Send([c EXCEPT !.cfg = InterceptDirect(v, c.cfg)])

\* The call settles for its caller with response (or error) `resp`.
Settle(c, resp) == [c EXCEPT !.pc = "return", !.resp = resp]

\* The handler answers the client and returns: its locals are gone, what the call
\* did for the upstream (fetches, refreshes, sent, posts, the last answer) stays.
Answer(c, status, outcome) ==
    [BlankCall EXCEPT !.kind = c.kind, !.pc = "done", !.status = status, !.outcome = outcome,
                      !.stored = c.stored, !.cookieless = c.cookieless,
                      !.repaired = c.repaired, !.refused = c.refused,
                      !.resp = c.resp, !.held = c.held, !.fresh = c.fresh,
                      !.acquired = c.acquired, !.fetches = c.fetches, !.refreshes = c.refreshes,
                      !.sent = c.sent, !.posts = c.posts, !.n = c.n + 1]

Commit(r, c) == call' = [call EXCEPT ![r] = c]

NodeBBInit ==
    /\ variant \in Variants
    /\ session = NoSession
    /\ call = [r \in Reqs |-> BlankCall]

\* ---- the request interceptor's getCsrfToken settles -------------------------------
TokenFetched(r) ==
    /\ call[r].pc = "tokenFetch"
    /\ \E o \in FetchOutcomes :
        LET c == call[r]
            res == GetCsrfToken(variant, c.cfg.sessionCookies, o)
        IN IF InterceptRejects(variant, res)
           THEN Commit(r, Settle(c, NoResp))
           ELSE Commit(r, Send([c EXCEPT !.cfg = InterceptFetched(variant, c.cfg, res)]))
    /\ UNCHANGED <<variant, session, retryVars, mongoVars, validateVars>>

\* ---- the upstream answers; the response interceptor runs up to its await -----------
\* (A: lines 51-71 and 101-111, B: part_008 lines 51-62 and 80-83)
UpstreamAnswers(r) ==
    /\ call[r].pc = "sent"
    /\ \E resp \in ResponsesFor(call[r].cfg.url) :
        LET c == [call[r] EXCEPT !.refused = @ \/ Refusal(call[r].cfg, resp)]
        IN IF IsAuthStatus(resp.status) /\ ~c.cfg.retry
           THEN Commit(r, Acquire([c EXCEPT !.cfg = MarkRetry(c.cfg), !.held = resp,
                                            !.pc = "refresh", !.refreshes = c.refreshes + 1]))
           ELSE Commit(r, Settle(c, resp))
    /\ UNCHANGED <<variant, session, retryVars, mongoVars, validateVars>>

\* A catch block that rejects with the refresh's own error, which has no response.
RefreshFailedSurfaced(c) == Settle(c, NoResp)

\* catch (refreshError) { return Promise.reject(error) } (A: lines 95-98, B: part_008
\* lines 73-76): the call settles with the error of the first attempt.
RefreshFailed(c) == Settle(c, c.held)

\* ---- the refresh's getCsrfToken settles (A: lines 75-97, B: part_008 lines 66-76) --
Refreshed(r) ==
    /\ call[r].pc = "refresh"
    /\ \E o \in FetchOutcomes :
        LET c == call[r]
            res == GetCsrfToken(variant, c.cfg.sessionCookies, o)
        IN IF res.threw \/ ~TruthyStr(res.token)
           THEN Commit(r, RefreshFailed(c))
           ELSE Commit(r, Dispatch(variant, [c EXCEPT !.cfg = RefreshConfig(variant, c.cfg, res),
                                                      !.fresh = res.token]))
    /\ UNCHANGED <<variant, session, retryVars, mongoVars, validateVars>>

\* ---- a proxied request arrives ----------------------------------------------------
\* A: ensureNodeBBSession (lines 336-390) and the handler up to makeRequest (393-412);
\* B: the router middleware (part_008 lines 272-311).
\* A guard that lets every caller through.
IsAuthenticatedAlways(s) == TRUE

\* req.isAuthenticated() (A: line 338, B: part_008 line 273)
IsAuthenticated(s) == s.authenticated

SessionComplete(v, s) ==
    IF v = "A"
    THEN s.hasNodeBB /\ Truthy(s.cookies) /\ TruthyStr(s.csrfToken)
    ELSE s.hasNodeBB /\ FirstCookie(s.cookies) /\ TruthyStr(s.csrfToken)

ProxyStart(r) ==
    /\ call[r].pc = "idle"
    /\ \E req \in InboundRequests :
        LET c == [call[r] EXCEPT !.kind = "proxy", !.cont = "proxy", !.inbound = req,
                                 !.stored = session.hasNodeBB /\ Truthy(session.cookies)
                                            /\ TruthyStr(session.csrfToken),
                                 !.cookieless = session.authenticated
                                                /\ ~(session.hasNodeBB /\ FirstCookie(session.cookies))]
        IN IF ~IsAuthenticated(session)
           THEN Commit(r, Answer(c, 401, "Authentication required"))
           ELSE IF SessionComplete(variant, session)
           THEN Commit(r, Dispatch(variant, [c EXCEPT !.cfg = MakeRequest(req.method, ProxyBody(req), session)]))
           ELSE IF variant = "A" /\ TruthyStr(session.username)
           THEN Commit(r, Acquire([c EXCEPT !.pc = "repair"]))
           ELSE Commit(r, Answer(c, 401, "NodeBB session not found"))
    /\ UNCHANGED <<variant, session, retryVars, mongoVars, validateVars>>

\* ---- A: the session repair's getCsrfToken settles (lines 353-373, 383-389) ----------
ProxyRepaired(r) ==
    /\ call[r].pc = "repair"
    /\ \E o \in FetchOutcomes :
        LET c == call[r]
            res == GetCsrfToken(variant, IF session.hasNodeBB THEN session.cookies ELSE NoCookies, o)
            s == [session EXCEPT !.hasNodeBB = TRUE,
                                 !.csrfToken = IF TruthyStr(res.token) THEN res.token ELSE session.csrfToken,
                                 !.cookies = IF Truthy(res.cookies) THEN res.cookies ELSE session.cookies]
        IN IF res.threw
           THEN Commit(r, Answer(c, 500, "Internal server error")) /\ UNCHANGED session
           ELSE /\ session' = s
                /\ Commit(r, Dispatch(variant, [c EXCEPT !.repaired = TRUE,
                                                         !.cfg = MakeRequest(c.inbound.method,
                                                                            ProxyBody(c.inbound), s)]))
    /\ UNCHANGED <<variant, retryVars, mongoVars, validateVars>>

\* ---- the proxy handler gets its response or its error -------------------------------
\* (A: lines 414-452, B: part_008 lines 313-326).  A writes the new cookies to
\* req.session and calls req.session.save without awaiting it (lines 417-424): the
\* store keeps them (saved) or the save fails and the next request loads the old ones.
\* A handler that also stores the token its request was retried with.
SessionAfterForwardWrittenBack(v, s, c, saved) ==
    IF TruthyStr(c.fresh) THEN [s EXCEPT !.csrfToken = c.fresh] ELSE s

\* What the handler leaves in the session once makeRequest settled (A: lines 414-430,
\* B: part_008 lines 312-314): the rotated cookies in A, nothing in B.
SessionAfterForward(v, s, c, saved) ==
    IF v = "A" /\ c.resp.status = 200 /\ Truthy(c.resp.setCookie) /\ saved
    THEN [s EXCEPT !.cookies = c.resp.setCookie]
    ELSE s

ProxyRespond(r) ==
    /\ call[r].pc = "return"
    /\ call[r].cont = "proxy"
    /\ \E saved \in BOOLEAN :
        LET c == call[r]
        IN /\ Commit(r, Answer(c, IF c.resp.status = 0 THEN 500 ELSE c.resp.status,
                                  IF c.resp.status = 200 THEN "ok" ELSE "error"))
           /\ session' = SessionAfterForward(variant, session, c, saved)
    /\ UNCHANGED <<variant, retryVars, mongoVars, validateVars>>

\* ---- a login: the passport strategy (src/unnamed/part_001 lines 24-78) around
\* ---- initializeNodeBBSession (A: lines 199-311, B: part_008 lines 156-210) -----------
LoginFail(c, code) == Answer(c, code, "login failed")

\* Lines 27-29 of the strategy, then getCsrfToken() with no cookies.
LoginStart(r) ==
    /\ call[r].pc = "idle"
    /\ session' = [(IF session.loggedOut THEN NoSession ELSE session) EXCEPT !.hasNodeBB = TRUE]
    /\ Commit(r, Acquire([call[r] EXCEPT !.kind = "login", !.pc = "loginToken"]))
    /\ UNCHANGED <<variant, retryVars, mongoVars, validateVars>>

\* The configuration of the credential POST (A: lines 209-221, B: part_008 164-170).
LoginPostConfig(v, res) ==
    [BlankCfg EXCEPT !.method = "POST", !.url = "login", !.data = TRUE,
                     !.hToken = res.token,
                     !.sessionCookies = IF v = "A" THEN res.cookies ELSE NoCookies]

\* getCsrfToken settled: A lines 204-221 (and the catch, 295-310), B lines 161-170.
LoginToken(r) ==
    /\ call[r].pc = "loginToken"
    /\ \E o \in FetchOutcomes :
        LET c == call[r]
            res == GetCsrfToken(variant, NoCookies, o)
        IN IF res.threw
           THEN Commit(r, LoginFail(c, IF variant = "A" THEN 503 ELSE 500))
           ELSE Commit(r, Dispatch(variant,
                    [c EXCEPT !.csrfToken = res.token,
                              !.initialCookies = IF variant = "A" THEN res.cookies ELSE NoCookies,
                              !.cont = "login:post",
                              !.cfg = LoginPostConfig(variant, res)]))
    /\ UNCHANGED <<variant, session, retryVars, mongoVars, validateVars>>

\* set-cookie?.find(cookie => cookie.startsWith('express.sid=')) (part_008 177-179)
RECURSIVE FindSid(_)
FindSid(items) ==
    IF items = <<>> THEN NoCookies
    ELSE IF items[1].name = "express.sid" THEN CookieList(<<items[1]>>)
    ELSE FindSid(Tail(items))

\* The configuration of the profile GET (A: lines 243-253, B: part_008 186-194).
ProfileConfig(v, csrfToken, cookies) ==
    IF v = "A"
    THEN [BlankCfg EXCEPT !.url = "profile", !.hToken = csrfToken, !.hCookie = Join(cookies),
                          !.sessionCookies = cookies, !.sessionToken = csrfToken]
    ELSE [BlankCfg EXCEPT !.url = "profile", !.hToken = csrfToken, !.hCookie = Join(cookies)]

\* The credential POST settled: A lines 223-253 (catch: 295-310), B lines 172-194.
LoginAfterPost(r) ==
    /\ call[r].pc = "return"
    /\ call[r].cont = "login:post"
    /\ LET c == call[r]
           loginCookies == OrCookies(c.resp.setCookie, c.initialCookies)
           sid == IF c.resp.setCookie.isNull THEN NoCookies ELSE FindSid(c.resp.setCookie.items)
           cookies == IF variant = "A" THEN loginCookies ELSE sid
       IN IF c.resp.status # 200
          THEN Commit(r, LoginFail(c, IF c.resp.status # 0 THEN c.resp.status
                                      ELSE IF variant = "A" THEN 503 ELSE 500))
          ELSE IF ~c.resp.body.ok
          THEN Commit(r, LoginFail(c, 401))
          ELSE IF variant = "B" /\ ~Truthy(sid)
          THEN Commit(r, LoginFail(c, 500))
          ELSE Commit(r, Dispatch(variant,
                   [c EXCEPT !.loginResp = c.resp, !.loginCookies = cookies,
                             !.cont = "login:profile",
                             !.cfg = ProfileConfig(variant, c.csrfToken, cookies)]))
    /\ UNCHANGED <<variant, session, retryVars, mongoVars, validateVars>>

\* What a successful initializeNodeBBSession returns (A: 285-294, B: 200-205), as the
\* strategy stores it (part_001 lines 39-42).
LoginSession(v, c) ==
    [authenticated |-> TRUE, username |-> "alice", hasNodeBB |-> TRUE,
     destroying |-> FALSE, loggedOut |-> FALSE,
     csrfToken |-> IF v = "A" /\ c.loginResp.body.user
                   THEN OrStr(c.loginResp.body.userCsrf, c.csrfToken)
                   ELSE c.csrfToken,
     cookies |-> IF v = "A" THEN OrCookies(c.loginResp.setCookie, c.loginCookies)
                 ELSE c.loginCookies]

\* A login without the fallback to the login response's user payload.
HasFallbackUserNever(v, loginResp) == FALSE

\* The catch around the profile GET (A: lines 264-283) falls back to
\* loginResponse.data.user; B has no such catch (part_008 lines 186-198).
HasFallbackUser(v, loginResp) == v = "A" /\ loginResp.body.user

\* The profile GET settled: A lines 255-294, B lines 196-209; then part_001 34-72.
LoginAfterProfile(r) ==
    /\ call[r].pc = "return"
    /\ call[r].cont = "login:profile"
    /\ LET c == call[r]
           good == c.resp.status = 200 /\ c.resp.body.uid
       IN IF good \/ HasFallbackUser(variant, c.loginResp)
          THEN /\ session' = LoginSession(variant, c)
               /\ Commit(r, Answer(c, 200, IF good THEN "login ok" ELSE "login ok (fallback)"))
          ELSE /\ Commit(r, LoginFail(c, IF c.resp.status \notin {0, 200} THEN c.resp.status ELSE 500))
               /\ UNCHANGED session
    /\ UNCHANGED <<variant, retryVars, mongoVars, validateVars>>

\* ---- POST /user/logout (src/routes/user/user_routes.js lines 518-548) -----------------
\* req.logout and req.session.destroy() are started and not awaited; the cookies are
\* cleared on the response and 200 is sent.  A client that logs in again has no
\* session cookie and gets a new session (LoginStart).
Logout(r) ==
    /\ call[r].pc = "idle"
    /\ ~session.loggedOut
    /\ session' = [session EXCEPT !.destroying = TRUE, !.loggedOut = TRUE]
    /\ Commit(r, Answer([call[r] EXCEPT !.kind = "logout"], 200, "logged out"))
    /\ UNCHANGED <<variant, retryVars, mongoVars, validateVars>>

\* The store's deletion of the session record lands.  A handler in flight works on
\* the copy of the record its request loaded, so the deletion is taken to land
\* between two requests.
SessionDestroyed ==
    /\ session.destroying
    /\ \A r \in Reqs : call[r].pc \in {"idle", "done"}
    /\ session' = [NoSession EXCEPT !.loggedOut = TRUE]
    /\ UNCHANGED <<variant, call, retryVars, mongoVars, validateVars>>

\* ---- the client goes on to its next call --------------------------------------------
NextCall(r) ==
    /\ call[r].pc = "done"
    /\ call[r].n < MaxRequests
    /\ call' = [call EXCEPT ![r] = [BlankCall EXCEPT !.n = call[r].n]]
    /\ UNCHANGED <<variant, session, retryVars, mongoVars, validateVars>>

\* ========================================================================
\*  validateSession.js (the revision exported at lines 118-119)
\* ========================================================================

MaxValidations == 3     \* requests the middleware handles one after the other

\* What the middleware can find on the request: req.session, req.session.passport and
\* req.session.passport.user (NULL: missing).
Uids == {"u1", "u2", "u3"}
SessionRequests ==
    {[session |-> FALSE, passport |-> FALSE, user |-> NULL],
     [session |-> TRUE, passport |-> FALSE, user |-> NULL]}
        \cup {[session |-> TRUE, passport |-> TRUE, user |-> u] : u \in {NULL} \cup Uids}

\* What the admin-list fetch can bring: it rejects, answers with a status that is
\* not ok, or answers ok with a body that is not JSON, JSON without admins.members,
\* or the list of the administrators' uids.
FetchResults == {"throw", "notOk", "ok"}
NoAdminData == [kind |-> "none", members |-> {}]
AdminBodies ==
    {[kind |-> k, members |-> {}] : k \in {"unparseable", "noAdmins"}}
        \cup {[kind |-> "admins", members |-> a] : a \in SUBSET Uids}

NoReply == [text |-> "none"]
BlankMw ==
    [pc |-> "idle", handler |-> "none", req |-> [session |-> FALSE, passport |-> FALSE, user |-> NULL],
     uid |-> NULL, status |-> 0, body |-> NoReply, nexts |-> 0,
     fetched |-> "none", data |-> NoAdminData, n |-> 0]

\* A middleware that looks for session.passport only.
HasSessionUserLoose(req) == req.session /\ req.passport

\* lines 67 and 77: !req.session || !req.session.passport || !req.session.passport.user
HasSessionUser(req) == req.session /\ req.passport /\ req.user # NULL

\* res.status(status).json(body), and next()
Respond(m, status, body) ==
    [m EXCEPT !.pc = "done", !.status = status, !.body = body, !.n = m.n + 1]
CallNext(m) == [m EXCEPT !.pc = "done", !.nexts = m.nexts + 1, !.n = m.n + 1]

Unauthorized == [success |-> FALSE, message |-> "Unauthorized"]

ValidateInit == mw = BlankMw

\* validateSession, lines 66-72
ValidateSession ==
    /\ mw.pc = "idle"
    /\ \E req \in SessionRequests :
        LET m == [mw EXCEPT !.handler = "validateSession", !.req = req]
        IN mw' = IF ~HasSessionUser(req)
                 THEN Respond(m, 401, Unauthorized)
                 ELSE CallNext([m EXCEPT !.uid = req.user])
    /\ UNCHANGED <<retryVars, mongoVars, nodebbVars>>

\* validateAdminSession up to its fetch, lines 75-93
ValidateAdminSession ==
    /\ mw.pc = "idle"
    /\ \E req \in SessionRequests :
        LET m == [mw EXCEPT !.handler = "validateAdminSession", !.req = req]
        IN mw' = IF ~HasSessionUser(req)
                 THEN Respond(m, 401, Unauthorized)
                 ELSE [m EXCEPT !.pc = "fetch"]
    /\ UNCHANGED <<retryVars, mongoVars, nodebbVars>>

\* The fetch settles: lines 95-99, and the catch, lines 112-116
AdminFetched ==
    /\ mw.pc = "fetch"
    /\ \E o \in FetchResults :
        LET m == [mw EXCEPT !.fetched = o]
        IN mw' = CASE o = "throw" -> Respond(m, 500, [error |-> "Error validating session"])
                   [] o = "notOk" -> Respond(m, 403, [error |-> "Unable to fetch admin data"])
                   [] OTHER -> [m EXCEPT !.pc = "json"]
    /\ UNCHANGED <<retryVars, mongoVars, nodebbVars>>

\* A membership test that lets everybody through.
IsAdminAnybody(data, uid) == TRUE

\* line 102: adminData.admins.members.some((admin) => admin.uid === uid)
IsAdmin(data, uid) == uid \in data.members

\* adminResponse.json() settles: lines 99-111, and the catch, lines 112-116
AdminData ==
    /\ mw.pc = "json"
    /\ \E data \in AdminBodies :
        LET m == [mw EXCEPT !.data = data]
        IN mw' = IF data.kind # "admins"
                 THEN Respond(m, 500, [error |-> "Error validating session"])
                 ELSE IF IsAdmin(data, mw.req.user)
                 THEN CallNext(m)
                 ELSE Respond(m, 403, [error |-> "You need to be an administrator to do that"])
    /\ UNCHANGED <<retryVars, mongoVars, nodebbVars>>

\* The next request arrives.
ValidateAgain ==
    /\ mw.pc = "done"
    /\ mw.n < MaxValidations
    /\ mw' = [BlankMw EXCEPT !.n = mw.n]
    /\ UNCHANGED <<retryVars, mongoVars, nodebbVars>>

MongoIdle ==
    /\ client = 0 /\ connected = FALSE /\ db = 0 /\ lastError = NoMongoError
    /\ mstat = [configOK |-> TRUE, clients |-> 0, handshakes |-> 0, closes |-> 0,
                exported |-> 0]
    /\ proc = [p \in Callers |-> BlankFrame]

NodeBBIdle ==
    /\ variant = "A" /\ session = NoSession /\ call = [r \in Reqs |-> BlankCall]

InitRetry == RetryInit /\ MongoIdle /\ NodeBBIdle /\ ValidateInit
NextRetry == RetryStart \/ RetryInvoke \/ RetryWait
SpecRetry == InitRetry /\ [][NextRetry]_vars

\* One caller making its calls one after the other.
MongoNext ==
    \E p \in {1} :
        \/ MongoConnect(p)
        \/ MongoGetDB(p)
        \/ MongoGetCollection(p)
        \/ HandshakeOk(p)
        \/ HandshakeFails(p)
        \/ BackoffElapsed(p)
        \/ ResumeGetDB(p)
        \/ ResumeGetCollection(p)
        \/ StatsOk(p)
        \/ StatsFails(p)
        \/ ResumeReconnect(p)
        \/ ResumeReconnectGetDB(p)
        \/ MongoPing(p)
        \/ ResumePing(p)
        \/ PingAnswered(p)
        \/ MongoDisconnect(p)
        \/ CloseOk(p)
        \/ CloseFails(p)
        \/ MongoSettle(p)
        \/ MongoAgain(p)

\* The same caller when the step after the handshake may fail as well.
DbStepNext == MongoNext \/ HandshakeOkDbFails(1)

InitMongo == RetryIdle /\ MongoInit /\ NodeBBIdle /\ ValidateInit
SpecMongo == InitMongo /\ [][MongoNext]_vars
SpecDbStep == InitMongo /\ [][DbStepNext]_vars

\* Two callers, each calling connect() once, in every interleaving.
ConnectTwiceNext ==
    \E p \in Callers :
        \/ MongoConnect(p)
        \/ HandshakeOk(p)
        \/ HandshakeFails(p)
        \/ BackoffElapsed(p)
        \/ MongoSettle(p)

SpecConnectTwice == InitMongo /\ [][ConnectTwiceNext]_vars


\* One client making logins and proxied requests one after the other.
NodeBBNext ==
    \E r \in {1} :
        \/ LoginStart(r)
        \/ LoginToken(r)
        \/ LoginAfterPost(r)
        \/ LoginAfterProfile(r)
        \/ ProxyStart(r)
        \/ ProxyRepaired(r)
        \/ TokenFetched(r)
        \/ UpstreamAnswers(r)
        \/ Refreshed(r)
        \/ ProxyRespond(r)
        \/ Logout(r)
        \/ SessionDestroyed
        \/ NextCall(r)

InitNodeBB == RetryIdle /\ MongoIdle /\ NodeBBInit /\ ValidateInit
SpecNodeBB == InitNodeBB /\ [][NodeBBNext]_vars

\* ---- withDatabaseRetry(mongodb.getCollection)("objects")
\* ---- (src/routes/user/user_routes.js lines 108-114): retryOperation's operation is
\* ---- a getCollection call of caller 1.
DbRetryInvoke ==
    /\ retry.pc = "invoke"
    /\ proc[1].pc = "idle"
    /\ retry' = [retry EXCEPT !.pc = "awaiting"]
    /\ Apply(1, CallGetDB([proc[1] EXCEPT !.op = "getCollection", !.name = "objects"],
                          Mod, <<"gc:getDB">>))
    /\ UNCHANGED <<nodebbVars, validateVars>>

\* The getCollection promise settles inside retryOperation's try (part_000 121-136).
DbRetrySettled ==
    /\ retry.pc = "awaiting"
    /\ proc[1].pc = "resume" /\ proc[1].stack = <<>>
    /\ retry' = IF proc[1].out = "throw"
                THEN AfterFailure(retry, OpError(retry.calls + 1))
                ELSE [retry EXCEPT !.calls = retry.calls + 1, !.pc = "returned",
                                   !.result = OpValue]
    /\ proc' = [proc EXCEPT ![1] = [BlankFrame EXCEPT !.calls = proc[1].calls + 1]]
    /\ UNCHANGED <<client, connected, db, lastError, mstat, nodebbVars, validateVars>>

\* The wrapped getCollection against a store that never answers a handshake.
DbRetryNext ==
    \/ RetryStart
    \/ DbRetryInvoke
    \/ HandshakeFails(1)
    \/ BackoffElapsed(1)
    \/ ResumeGetDB(1)
    \/ ResumeGetCollection(1)
    \/ ResumeReconnect(1)
    \/ DbRetrySettled
    \/ RetryWait

InitDbRetry ==
    /\ retry \in [pc : {"start"},
                  wrapper : {"withDatabaseRetry"},
                  options : {o \in RetryOptions : /\ o.maxRetries = Absent
                                                  /\ o.initialDelay = Absent
                                                  /\ o.factor = AbsentFactor},
                  op : {[failFirst |-> 0, always |-> TRUE]},
                  maxRetries : {0}, initialDelay : {0}, factor : {AbsentFactor},
                  attempt : {0}, lastError : {NoError},
                  calls : {0}, thrown : {<<>>}, waits : {<<>>},
                  result : {NoValue}, error : {NoError}]
    /\ MongoInit /\ NodeBBIdle /\ ValidateInit
SpecDbRetry == InitDbRetry /\ [][DbRetryNext]_vars /\ WF_vars(DbRetryNext)

\* Two callers, each making one call of connect, getDB or getCollection, against a
\* store that answers every handshake; an established connection may drop.
SharedNext ==
    \E p \in Callers :
        \/ MongoConnect(p)
        \/ MongoGetDB(p)
        \/ MongoGetCollection(p)
        \/ HandshakeOk(p)
        \/ ResumeGetDB(p)
        \/ ResumeGetCollection(p)
        \/ StatsOk(p)
        \/ StatsDropped(p)
        \/ ResumeReconnect(p)
        \/ ResumeReconnectGetDB(p)
        \/ MongoSettle(p)

SpecShared == InitMongo /\ [][SharedNext]_vars

\* One login; when it is over, two proxied POSTs of the same client in flight
\* together, request 2 arriving first.
TwoProxiesNext ==
    \/ (call[1].n = 0 /\ LoginStart(1))
    \/ LoginToken(1)
    \/ LoginAfterPost(1)
    \/ LoginAfterProfile(1)
    \/ NextCall(1)
    \/ \E r \in Reqs :
          \/ TokenFetched(r)
          \/ UpstreamAnswers(r)
          \/ Refreshed(r)
    \/ \E r \in {2, 3} :
          \/ /\ call[1].pc = "idle" /\ call[1].n > 0
             /\ call[5 - r].pc = "idle" => r = 2
             /\ ProxyStart(r)
             /\ call'[r].inbound.method = "POST"
          \/ ProxyRepaired(r)
          \/ ProxyRespond(r)

SpecTwoProxies == InitNodeBB /\ [][TwoProxiesNext]_vars

\* The middleware handling its requests one after the other.
ValidateNext ==
    \/ ValidateSession
    \/ ValidateAdminSession
    \/ AdminFetched
    \/ AdminData
    \/ ValidateAgain

InitValidate == RetryIdle /\ MongoIdle /\ NodeBBIdle /\ ValidateInit
SpecValidate == InitValidate /\ [][ValidateNext]_vars

\* ========================================================================
\*  Properties
\* ========================================================================

RetryOver == retry.pc \in {"returned", "thrown"}

\* C5: an operation that fails exactly k times and then succeeds, with
\* k < maxRetries, makes retryOperation return the operation's value after exactly
\* k + 1 invocations and k waits (k = 0: one invocation, no wait).
C5_SucceedsAfterKFailures ==
    (RetryOver /\ ~retry.op.always /\ retry.op.failFirst < retry.maxRetries)
        => /\ retry.pc = "returned"
           /\ retry.result = OpValue
           /\ retry.calls = retry.op.failFirst + 1
           /\ Len(retry.waits) = retry.op.failFirst

C5_Witness ==
    /\ retry.pc = "returned"
    /\ retry.op.failFirst = 2
    /\ retry.calls = 3
    /\ Len(retry.waits) = 2

\* The maxRetries bound to a call: the option when it is a non-zero number, else 3.
BoundMaxRetries ==
    IF retry.options.maxRetries \in {{}, {0}} THEN 3
    ELSE CHOOSE n \in retry.options.maxRetries : TRUE

\* C6: an operation that always fails is invoked exactly maxRetries times, and the
\* error thrown is the error object of the last invocation, unwrapped; the same
\* through withDatabaseRetry and withNetworkRetry (maxRetries >= 1).
C6_ExhaustionRethrowsLast ==
    (RetryOver /\ retry.op.always /\ BoundMaxRetries >= 1)
        => /\ retry.pc = "thrown"
           /\ retry.calls = BoundMaxRetries
           /\ Len(retry.thrown) = BoundMaxRetries
           /\ retry.error = retry.thrown[Len(retry.thrown)]
           /\ retry.error = OpError(BoundMaxRetries)

C6_Witness ==
    /\ retry.pc = "thrown"
    /\ retry.wrapper = "withDatabaseRetry"
    /\ retry.op.always
    /\ retry.options.maxRetries = {}
    /\ retry.calls = 3

\* C7: two concurrent connect() calls make one connection: one client object, and
\* (no handshake failing) one handshake in total.
NoHandshakeFailed == \A p \in Callers : \A i \in 1 .. Len(proc[p].log) : proc[p].log[i] # "fail"

C7_SingleHandshake ==
    /\ mstat.clients <= 1
    /\ NoHandshakeFailed => mstat.handshakes <= 1

\* C8: a getCollection call whose first connect is exhausted (three failed
\* handshakes) while the store answers every later handshake returns a handle after
\* exactly one reconnect cycle, whatever error the handshakes failed with.
FirstConnectExhausted(f) ==
    /\ Len(f.log) >= 3
    /\ SubSeq(f.log, 1, 3) = <<"fail", "fail", "fail">>
    /\ \A i \in 4 .. Len(f.log) : f.log[i] # "fail"

C8_ReconnectAfterExhaustion ==
    \A p \in Callers :
        (proc[p].pc = "done" /\ proc[p].op = "getCollection" /\ FirstConnectExhausted(proc[p]))
            => /\ proc[p].out = "value"
               /\ proc[p].val # 0
               /\ proc[p].resets = 1
               /\ proc[p].reconnects = 1

\* ---- the upstream bridge ---------------------------------------------------------
\* A proxied request that found a stored upstream session (no repair on the way).
StoredProxy(c) == c.kind = "proxy" /\ c.stored /\ ~c.repaired

\* C1: for a proxied request made with a stored upstream session whose forward is
\* answered 401 or 403, exactly one token refresh (one GET of the configuration
\* endpoint) is made and never a second one, at most two forwards leave for the
\* upstream, and a retried forward leaves exactly when the refresh returned a token;
\* a retried forward that is answered 403 gives the caller status 403, and a refresh
\* that returned no token gives the caller the status of the first answer.
C1_OneRefreshOneRetry ==
    \A r \in Reqs :
        LET c == call[r]
        IN StoredProxy(c) =>
            /\ c.refreshes <= 1 /\ c.fetches = c.refreshes /\ c.sent <= 2
            /\ c.refreshes = 1 => IsAuthStatus(c.held.status)
            /\ (c.pc = "done" /\ c.refreshes = 0) => (c.sent = 1 /\ ~IsAuthStatus(c.resp.status))
            /\ (c.pc = "done" /\ c.refreshes = 1) =>
                /\ c.sent = 2 <=> TruthyStr(c.fresh)
                /\ c.sent = 1 => c.status = c.held.status
                /\ (c.sent = 2 /\ c.resp.status = 403) => c.status = 403

\* A stored-session request answered 403 twice: one refresh, two forwards, 403 returned.
C1_Witness ==
    \E r \in Reqs :
        LET c == call[r]
        IN /\ StoredProxy(c) /\ c.pc = "done"
           /\ c.held.status = 403 /\ c.refreshes = 1 /\ c.sent = 2
           /\ c.resp.status = 403 /\ c.status = 403

\* C1 (as stated): whenever the forward of a stored-session request is answered 401 or
\* 403, exactly one refresh and exactly one retried forward are made.
C1_ExactlyOneRetry ==
    \A r \in Reqs :
        LET c == call[r]
        IN (StoredProxy(c) /\ c.pc = "done" /\ IsAuthStatus(c.held.status)) =>
            (c.refreshes = 1 /\ c.sent = 2)

\* C2: the X-CSRF-Token header of the forward that is retried after a 401/403 is the
\* token the refresh returned.
C2_RetryCarriesFreshToken ==
    \A r \in Reqs :
        LET c == call[r]
        IN (c.kind = "proxy" /\ c.pc = "sent" /\ c.cfg.retry /\ c.refreshes = 1) =>
            c.cfg.hToken = c.fresh

\* C3: a login whose credential POST was refused (non-success status, or a body whose
\* status code is not "ok") ends as an authentication failure, and the credential POST
\* left for the upstream exactly once.
C3_CredentialPostOnce ==
    \A r \in Reqs :
        LET c == call[r]
        IN (c.kind = "login" /\ c.refused) =>
            /\ c.posts = 1
            /\ c.pc = "done" => c.outcome = "login failed"

\* C4: a proxied request of an authenticated caller whose stored upstream session has
\* absent or empty cookies is answered 401 "NodeBB session not found" and makes no
\* upstream call: no GET of the configuration endpoint, no forward.
C4_CookielessIsRefused ==
    \A r \in Reqs :
        LET c == call[r]
        IN (c.kind = "proxy" /\ c.cookieless) =>
            /\ c.fetches = 0 /\ c.sent = 0
            /\ c.pc = "done" /\ c.status = 401 /\ c.outcome = "NodeBB session not found"

\* C9: the second of two token acquisitions made while serving one request (nothing
\* invalidates a token in between) is served without a second GET of the
\* configuration endpoint.
C9_SecondAcquisitionCached ==
    \A r \in Reqs : call[r].acquired >= 2 => call[r].fetches = 1

\* The cookies handed to the getCsrfToken call that is in flight.
CookiesPassed(c) ==
    CASE c.pc = "loginToken" -> NoCookies
      [] c.pc = "repair" -> IF session.hasNodeBB THEN session.cookies ELSE NoCookies
      [] OTHER -> c.cfg.sessionCookies

\* C10: a getCsrfToken call that is given a non-empty list of cookies and gets a token
\* returns exactly the cookies it was given, whatever Set-Cookie the answer carries.
C10_ExistingCookiesKept ==
    \A r \in Reqs :
        LET c == call[r]
        IN (c.pc \in {"loginToken", "tokenFetch", "refresh", "repair"} /\ FirstCookie(CookiesPassed(c))) =>
            \A o \in FetchOutcomes :
                o.kind = "ok" => GetCsrfToken(variant, CookiesPassed(c), o).cookies = CookiesPassed(c)

\* C11: no request leaves for the upstream with a null X-CSRF-Token, and a login
\* whose token acquisition got an answer without a csrf token never goes on to the
\* credential POST.
C11_NoTokenStopsLogin ==
    \A r \in Reqs :
        LET c == call[r]
        IN /\ c.pc = "sent" => TruthyStr(c.cfg.hToken)
           /\ (c.kind = "login" /\ c.pc \notin {"idle", "loginToken", "done"}) => TruthyStr(c.csrfToken)

\* C12: when the successful answer to a proxied request carried Set-Cookie values,
\* the stored session's cookies are exactly those values once the request is answered.
C12_RotationStored ==
    \A r \in Reqs :
        LET c == call[r]
        IN (c.kind = "proxy" /\ c.pc = "done" /\ c.resp.status = 200 /\ Truthy(c.resp.setCookie)) =>
            session.cookies = c.resp.setCookie

\* C13: a proxied request of a caller that is not locally authenticated is answered
\* 401 "Authentication required" at once: no GET of the configuration endpoint, no
\* forward, and the session is left as it was.
C13_UnauthenticatedRejected ==
    [][\A r \in Reqs :
        (call[r].pc = "idle" /\ call'[r].kind = "proxy" /\ ~session.authenticated) =>
            /\ call'[r].pc = "done"
            /\ call'[r].status = 401 /\ call'[r].outcome = "Authentication required"
            /\ call'[r].fetches = 0 /\ call'[r].sent = 0
            /\ session' = session]_vars

\* An unauthenticated caller's proxied request, answered.
C13_Witness ==
    \E r \in Reqs :
        /\ call[r].kind = "proxy" /\ call[r].pc = "done" /\ ~session.authenticated
        /\ call[r].status = 401 /\ call[r].outcome = "Authentication required"

\* C14: a login that returns success has stored a non-empty list of cookies and a
\* non-empty csrfToken.
C14_SuccessIsPopulated ==
    \A r \in Reqs :
        LET c == call[r]
        IN (c.kind = "login" /\ c.pc = "done" /\ c.outcome \in {"login ok", "login ok (fallback)"}) =>
            (FirstCookie(session.cookies) /\ TruthyStr(session.csrfToken))

\* C15: one login makes at most one GET of the configuration endpoint, one
\* credential POST and one profile GET.
C15_LoginAtMostThreeCalls ==
    \A r \in Reqs :
        LET c == call[r]
        IN c.kind = "login" => (c.fetches <= 1 /\ c.posts <= 1 /\ c.sent <= 2)

\* C16: in third_party/nodebb.js, when the profile fetch of a login has failed (an
\* error answer, no answer, or a body without uid), the login succeeds if the login
\* response carried a user payload and fails otherwise, leaving the session alone.
C16_ProfileFallback ==
    [][\A r \in Reqs :
        LET c == call[r]
        IN (variant = "A" /\ c.pc = "return" /\ c.cont = "login:profile" /\ call'[r].pc = "done"
              /\ ~(c.resp.status = 200 /\ c.resp.body.uid)) =>
            IF c.loginResp.body.user
            THEN call'[r].outcome = "login ok (fallback)" /\ session'.authenticated
            ELSE call'[r].outcome = "login failed" /\ session' = session]_vars

\* A login that succeeded on the user payload of the login response.
C16_Witness ==
    \E r \in Reqs :
        /\ variant = "A" /\ call[r].kind = "login" /\ call[r].pc = "done"
        /\ call[r].outcome = "login ok (fallback)" /\ call[r].resp.status # 200
        /\ session.authenticated

\* ---- the connection manager, one call at a time --------------------------------------
\* The call of frame f is over for its caller.
CallOver(f) == f.pc \in {"resume", "done"} /\ f.stack = <<>>

\* In the log of a connect call every handshake but the last one failed.
FailsThenLast(log, last) ==
    /\ log # <<>>
    /\ log[Len(log)] = last
    /\ \A i \in 1 .. (Len(log) - 1) : log[i] = "fail"

C18_ConnectedConnectIsNoOp ==
    [][\A p \in Callers :
        (proc[p].pc = "idle" /\ proc'[p].op = "connect" /\ connected /\ db # 0) =>
            /\ proc'[p].pc = "resume" /\ proc'[p].stack = <<>>
            /\ proc'[p].out = "value" /\ proc'[p].val = client
            /\ proc'[p].hs = 0
            /\ UNCHANGED <<client, connected, db, lastError, mstat>>]_vars

\* A connect() call that returned without a handshake while connected.
C18_Witness ==
    \E p \in Callers :
        /\ proc[p].op = "connect" /\ CallOver(proc[p]) /\ proc[p].out = "value"
        /\ proc[p].hs = 0 /\ connected /\ db # 0 /\ proc[p].val = client

\* The authentication-failure patterns of the round-trip's error.
AuthenticationFailure(e) ==
    \/ Includes(e.message, <<"Authentication", "failed">>)
    \/ Includes(e.message, <<"not", "authorized">>)
    \/ e.code = 18

\* C19: when the stats round-trip of getCollection fails with an authentication
\* failure, getCollection throws "Authentication failed for collection ..." in that
\* step: no reset, no reconnect, no handshake, and client, connected, db, lastError
\* keep their values.
C19_AuthFailureRaisesAtOnce ==
    [][\A p \in Callers :
        (proc[p].pc = "gc_stats" /\ proc'[p].pc # "gc_stats" /\ AuthenticationFailure(proc'[p].cause)) =>
            /\ proc'[p].pc = "resume" /\ proc'[p].out = "throw"
            /\ proc'[p].err.message =
                  <<"Authentication", "failed", "for", "collection", proc[p].name>> \o proc'[p].cause.message
            /\ proc'[p].hs = proc[p].hs
            /\ proc'[p].resets = proc[p].resets /\ proc'[p].reconnects = proc[p].reconnects
            /\ UNCHANGED <<client, connected, db, lastError, mstat>>]_vars

\* A getCollection that threw on an authentication failure of the round-trip (code 18).
C19_Witness ==
    \E p \in Callers :
        /\ proc[p].op = "getCollection" /\ CallOver(proc[p]) /\ proc[p].out = "throw"
        /\ proc[p].cause.code = 18 /\ proc[p].reconnects = 0 /\ connected

\* C20: after getCollection has detected a dropped connection and its reconnect has
\* succeeded, the module is connected and lastError is set.
C20_ReconnectRecordsError ==
    \A p \in Callers :
        LET f == proc[p]
        IN (f.op = "getCollection" /\ CallOver(f) /\ f.out = "value" /\ f.reconnects >= 1) =>
            (connected /\ lastError # NoMongoError)

\* C21: ping() never throws, whatever the connection state: it returns true exactly
\* when the ping command was sent and answered ok = 1, and false when the connection
\* could not be made, when the command rejected, and when the answer was not ok = 1.
C21_PingNeverThrows ==
    \A p \in Callers :
        LET f == proc[p]
        IN (f.op = "ping" /\ CallOver(f)) =>
            /\ f.out = "value"
            /\ f.flag <=> (f.cmd = "ok1")
            /\ f.cmd = "none" => (~connected \/ db = 0)

\* A ping that returned false after its connect gave up at the attempt ceiling.
C21_Witness ==
    \E p \in Callers :
        /\ proc[p].op = "ping" /\ CallOver(proc[p]) /\ proc[p].out = "value"
        /\ ~proc[p].flag /\ proc[p].cmd = "none" /\ proc[p].hs = MAX_ATTEMPTS

\* C22: a disconnect() made when the module is not connected (after a successful
\* disconnect, or never connected) closes nothing, changes nothing and returns; a
\* disconnect whose close succeeded leaves connected = false and db = null.
C22_DisconnectIdempotent ==
    [][\A p \in Callers :
        /\ (proc[p].pc = "idle" /\ proc'[p].op = "disconnect" /\ ~connected) =>
              /\ proc'[p].pc = "resume" /\ proc'[p].stack = <<>> /\ proc'[p].out = "value"
              /\ UNCHANGED <<client, connected, db, lastError, mstat>>
        /\ (proc[p].pc = "d_close" /\ proc'[p].pc # "d_close" /\ proc'[p].out = "value") =>
              (~connected' /\ db' = 0 /\ mstat'.closes = mstat.closes)]_vars

\* A second disconnect() that returned after one close in all.
C22_Witness ==
    \E p \in Callers :
        /\ proc[p].op = "disconnect" /\ CallOver(proc[p]) /\ proc[p].out = "value"
        /\ proc[p].calls = 2 /\ mstat.closes = 1 /\ mstat.handshakes = 1
        /\ ~connected /\ db = 0

\* C23: when required connection parameters are absent, initialize() has recorded
\* lastError and constructed no client, no handshake is ever started, connected stays
\* false, and every connect() throws "Cannot initialize MongoDB client: ...".
C23_MissingParametersFailFast ==
    ~mstat.configOK =>
        /\ client = 0 /\ mstat.clients = 0 /\ mstat.handshakes = 0
        /\ ~connected /\ db = 0
        /\ lastError = MissingParams
        /\ \A p \in Callers :
            /\ proc[p].hs = 0
            /\ (proc[p].op = "connect" /\ CallOver(proc[p])) =>
                /\ proc[p].out = "throw"
                /\ proc[p].err.message =
                      <<"Cannot", "initialize", "MongoDB", "client:">> \o MissingParams.message

\* A connect() that threw for missing parameters.
C23_Witness ==
    \E p \in Callers :
        /\ ~mstat.configOK /\ proc[p].op = "connect" /\ CallOver(proc[p])
        /\ proc[p].out = "throw" /\ lastError = MissingParams

\* ---- delays ----------------------------------------------------------------------------
\* Rationals <<num, den>> with den > 0.
LeqRat(a, b) == a[1] * b[2] <= b[1] * a[2]
MinRat(a, b) == IF LeqRat(a, b) THEN a ELSE b
EqRat(a, b) == a[1] * b[2] = b[1] * a[2]

\* C24: every delay retryOperation waits is clamped to the maximum delay of the
\* options it was called with: the n-th wait is
\* min(maxDelay, initialDelay * factor^(n-1)); and the backoff connect() carries never
\* exceeds MAX_BACKOFF_MS.
C24_DelayClamped ==
    /\ \A p \in Callers : proc[p].backoff <= MAX_BACKOFF_MS
    /\ (retry.pc # "idle" /\ retry.pc # "start" /\ retry.options.maxDelay # Absent) =>
          \A n \in 1 .. Len(retry.waits) :
              EqRat(retry.waits[n],
                    MinRat(<<TheValue(retry.options.maxDelay), 1>>,
                           BackoffDelay(retry.initialDelay, retry.factor, n)))

\* The sum of a sequence of rationals, and the waits an always-failing operation
\* meets under given effective options.
RECURSIVE SumRat(_)
SumRat(q) ==
    IF q = <<>> THEN <<0, 1>>
    ELSE LET t == SumRat(Tail(q))
         IN <<Head(q)[1] * t[2] + t[1] * Head(q)[2], Head(q)[2] * t[2]>>
LessRat(a, b) == a[1] * b[2] < b[1] * a[2]
PresetOptions == [maxRetries |-> Absent, initialDelay |-> Absent, factor |-> AbsentFactor]
IsPreset(o) ==
    o.maxRetries = Absent /\ o.initialDelay = Absent /\ o.factor = AbsentFactor
ExhaustionWaits(o) ==
    [n \in 1 .. (RetryMaxRetries(o) - 1) |-> BackoffDelay(RetryDelay0(o), RetryFactor(o), n)]

\* C28: with the default presets and an always-failing operation, the total time
\* withDatabaseRetry has waited when it rethrows is strictly smaller than the total
\* time withNetworkRetry waits, and the database preset's initial delay is the
\* shorter of the two.
C28_DatabaseExhaustsFaster ==
    (retry.pc = "thrown" /\ retry.wrapper = "withDatabaseRetry"
        /\ IsPreset(retry.options) /\ retry.op.always)
        => /\ LessRat(SumRat(retry.waits),
                      SumRat(ExhaustionWaits(NetworkRetryOptions(PresetOptions))))
           /\ retry.initialDelay < RetryDelay0(NetworkRetryOptions(PresetOptions))

\* ---- the proxied request -----------------------------------------------------------
Forwarded(c) == c.kind = "proxy" /\ c.pc = "sent" /\ c.cfg.url = "forward"

\* C25: the outbound request built for a proxied inbound request has the same
\* method; a body carried by a POST, PUT, PATCH or DELETE is forwarded, and the
\* query parameters of a GET are present on the outbound request.
C25_ForwardedOneToOne ==
    \A r \in Reqs :
        Forwarded(call[r]) =>
            /\ call[r].cfg.method = call[r].inbound.method
            /\ (call[r].inbound.method \in {"POST", "PUT", "PATCH", "DELETE"}
                    /\ call[r].inbound.body) => call[r].cfg.data
            /\ (call[r].inbound.method = "GET" /\ call[r].inbound.query) => call[r].cfg.params

\* ---- transient network failures ------------------------------------------------------
\* The login ended because its own getCsrfToken() threw: nothing but the token GET
\* was attempted.
LoginTokenUnavailable(c) ==
    c.kind = "login" /\ c.pc = "done" /\ c.outcome = "login failed"
        /\ c.acquired = 1 /\ c.sent = 0

\* C26: a login whose token acquisition fails without a response gives up only
\* after the network retry policy is exhausted (DefaultMaxRetries attempts of the
\* token GET), and then fails with a 503.
C26_NetworkFailureRetried ==
    \A r \in Reqs :
        LoginTokenUnavailable(call[r]) =>
            /\ call[r].fetches = RetryMaxRetries(NetworkRetryOptions(PresetOptions))
            /\ call[r].status = 503

\* ---- logout --------------------------------------------------------------------------
\* C27: once the logout handler has answered, the session record and its upstream
\* record (cookies, csrfToken) are gone, and every proxied request that presents the
\* session afterwards is answered 401 without any call to the upstream.
C27_LogoutEndsUpstreamSession ==
    \A r \in Reqs :
        session.loggedOut =>
            /\ ~session.authenticated /\ ~session.hasNodeBB
            /\ ~Truthy(session.cookies) /\ ~TruthyStr(session.csrfToken)
            /\ (call[r].kind = "proxy" /\ call[r].pc # "idle") =>
                   /\ call[r].pc = "done"
                   /\ call[r].status = 401
                   /\ call[r].fetches = 0 /\ call[r].sent = 0

\* ---- session validation ----------------------------------------------------------------
Validated(h) == mw.handler = h /\ mw.pc = "done"
SessionUserPresent == mw.req.session /\ mw.req.passport /\ mw.req.user # NULL

\* C29: validateSession either rejects or continues: without a session, a
\* session.passport or a session.passport.user it answers 401
\* {success: false, message: 'Unauthorized'} and does not call next; otherwise it sets
\* req.uid to session.passport.user and calls next exactly once, writing no response.
C29_RejectsOrContinues ==
    Validated("validateSession") =>
        IF SessionUserPresent
        THEN mw.nexts = 1 /\ mw.uid = mw.req.user /\ mw.status = 0 /\ mw.body = NoReply
        ELSE mw.nexts = 0 /\ mw.status = 401 /\ mw.body = Unauthorized /\ mw.uid = NULL

C29_Witness ==
    /\ Validated("validateSession") /\ mw.n = 2
    /\ mw.req.session /\ mw.req.passport /\ mw.req.user = NULL
    /\ mw.status = 401 /\ mw.nexts = 0

\* validateAdminSession continues exactly for an administrator.
AdminContinues ==
    mw.nexts = 1 <=>
        (SessionUserPresent /\ mw.fetched = "ok" /\ mw.data.kind = "admins"
            /\ mw.req.user \in mw.data.members)

\* C30 as stated: next is called iff the session holds a user id, the fetch answered
\* ok and the user id is among the admin members; otherwise the response is 401 (no
\* session user), 403 (fetch not ok, or user not among the members) or 500 (fetch
\* threw).
C30_AdminOnlyAsStated ==
    Validated("validateAdminSession") =>
        /\ AdminContinues
        /\ mw.nexts = 0 =>
              mw.status = CASE ~SessionUserPresent -> 401
                            [] mw.fetched = "throw" -> 500
                            [] OTHER -> 403

\* C30, amended: next is called iff the session holds a user id, the fetch answered
\* ok with a readable admin list and the user id is among its members; otherwise next
\* is not called and the response is 401 (no session user), 500 (the fetch threw, or
\* its body is not JSON or has no admins.members) or 403 (fetch not ok, or user not
\* among the members).
C30_AdminOnly ==
    Validated("validateAdminSession") =>
        /\ AdminContinues
        /\ mw.nexts \in {0, 1}
        /\ mw.nexts = 1 => mw.status = 0
        /\ mw.nexts = 0 =>
              mw.status = CASE ~SessionUserPresent -> 401
                            [] mw.fetched = "throw" -> 500
                            [] mw.fetched = "ok" /\ mw.data.kind # "admins" -> 500
                            [] OTHER -> 403

C30_Witness ==
    /\ Validated("validateAdminSession")
    /\ mw.fetched = "ok" /\ mw.data.kind = "admins"
    /\ mw.req.user = "u3" /\ mw.data.members = {"u1", "u2"}
    /\ mw.status = 403 /\ mw.nexts = 0

\* ---- the wrapped getCollection under an unreachable store --------------------------------
\* C31: withDatabaseRetry(getCollection)(name) against a store that never answers
\* ends by throwing, and has then started at most
\* maxRetries x (MAX_ATTEMPTS + MAX_ATTEMPTS) = 18 handshakes: connect()'s ceiling, once
\* for getDB and once for the reconnect, in each of the wrapper's attempts.
C31_BoundedHandshakes ==
    /\ [](mstat.handshakes
            <= RetryMaxRetries(DatabaseRetryOptions(PresetOptions)) * (MAX_ATTEMPTS + MAX_ATTEMPTS))
    /\ <>(retry.pc = "thrown" /\ retry.error # NoError)

C31_Witness ==
    /\ retry.pc = "thrown" /\ retry.calls = 3
    /\ mstat.handshakes = 18

\* ---- concurrent callers of the connection manager ----------------------------------------
\* C32: with an initialised client and a store that answers every handshake, every
\* caller of connect, getDB or getCollection(name), in every interleaving with the
\* other caller, ends with the client, a non-null db or a non-null collection; and
\* when both calls are over, and a handshake was made, the module is connected with
\* db set.
C32_EveryCallerGetsHandle ==
    client # 0 =>
        /\ \A p \in Callers :
              (CallOver(proc[p]) /\ ~(proc[p].op = "getCollection" /\ proc[p].name = "")) =>
                  /\ proc[p].out = "value"
                  /\ proc[p].val # 0
        /\ (mstat.handshakes > 0 /\ \A p \in Callers : proc[p].pc = "done")
              => (connected /\ db # 0)

\* ---- proxied requests in flight together ---------------------------------------------
\* C33 (as stated): each of several concurrent proxied requests that is answered
\* 401/403 makes exactly one refresh and exactly one retry of its own.
C33_OneRetryEach ==
    \A r \in {2, 3} :
        LET c == call[r]
        IN (StoredProxy(c) /\ c.pc = "done" /\ IsAuthStatus(c.held.status)) =>
            (c.refreshes = 1 /\ c.sent = 2)

\* C33, amended: the retry marker is per request.  Whatever the other request does,
\* a proxied request with a stored session makes one refresh exactly when its first
\* forward is answered 401/403 and never a second one, the refresh is its only token
\* fetch, and its forward is retried once exactly when its own refresh returned a
\* token.
C33_MarkerPerRequest ==
    \A r \in {2, 3} :
        LET c == call[r]
        IN StoredProxy(c) =>
            /\ c.refreshes <= 1 /\ c.fetches = c.refreshes /\ c.sent <= 2
            /\ c.refreshes = 1 => (IsAuthStatus(c.held.status) /\ c.cfg.retry = (c.pc # "done"))
            /\ (c.pc = "done" /\ c.refreshes = 0) => (c.sent = 1 /\ ~IsAuthStatus(c.resp.status))
            /\ (c.pc = "done" /\ c.refreshes = 1) => (c.sent = 2 <=> TruthyStr(c.fresh))

\* Request 2 is refreshing its token while the retried forward of request 3 is out.
C33_Witness ==
    /\ StoredProxy(call[2]) /\ StoredProxy(call[3])
    /\ call[2].pc = "refresh" /\ call[2].refreshes = 1 /\ call[2].sent = 1
    /\ call[3].pc = "sent" /\ call[3].refreshes = 1 /\ call[3].sent = 2

\* ---- the session behind a forward ------------------------------------------------------
\* C34: every forward of a proxied request that is out at the upstream was sent from
\* a session that holds a non-empty csrfToken and non-empty cookies; a request that
\* went through the session repair is forwarded only if the repair obtained both.
C34_ForwardFromCompleteSession ==
    \A r \in Reqs :
        LET c == call[r]
        IN (c.kind = "proxy" /\ c.pc = "sent" /\ c.cfg.url = "forward") =>
            (session.hasNodeBB /\ TruthyStr(session.csrfToken) /\ Truthy(session.cookies))

\* ---- the stored token ------------------------------------------------------------------
\* C35: no step of a proxied request other than the settlement of its session repair
\* changes the csrfToken stored in the session: the token a 401/403 refresh obtained is
\* used on the request in flight and is never written back.
C35_ForwardKeepsStoredToken ==
    [][\A r \in Reqs :
        (call'[r] # call[r] /\ call'[r].kind = "proxy" /\ call[r].pc # "repair") =>
            session'.csrfToken = session.csrfToken]_vars

\* A proxied request was retried with a refreshed token that differs from the stored
\* one, and has been answered.
C35_Witness ==
    \E r \in Reqs :
        LET c == call[r]
        IN /\ c.kind = "proxy" /\ c.pc = "done" /\ c.refreshes = 1 /\ c.sent = 2
           /\ TruthyStr(c.fresh) /\ TruthyStr(session.csrfToken) /\ c.fresh # session.csrfToken

\* ---- the attempts of retryOperation ----------------------------------------------------
\* C36: whatever the options, retryOperation invokes the operation at least once
\* before it settles, what it throws is an error some invocation raised (never
\* undefined), and a maxRetries of 0 or absent allows three attempts.
C36_AtLeastOneAttempt ==
    /\ retry.pc \in {"returned", "thrown"} => retry.calls >= 1
    /\ retry.pc = "thrown" =>
          /\ retry.error # NoError
          /\ \E i \in 1 .. Len(retry.thrown) : retry.thrown[i] = retry.error
    /\ (retry.pc \notin {"idle", "start"} /\ retry.wrapper = "retryOperation"
            /\ retry.options.maxRetries \in {Absent, Some(0)}) => retry.maxRetries = 3

\* ---- the connection flag ---------------------------------------------------------------
\* C37: whenever connected is true the client exists and db is set; in particular a
\* connect() of a single caller that has thrown leaves connected false.
C37_ConnectedHasDb ==
    /\ connected => (client # 0 /\ db # 0)
    /\ \A p \in {1} :
          (proc[p].op = "connect" /\ proc[p].pc = "resume" /\ proc[p].out = "throw") => ~connected

\* ---- a refresh that fails --------------------------------------------------------------
\* C38: when the token refresh behind a 401/403 throws or returns no token, the request
\* is not sent again and settles for its caller with the 401/403 answer of the first
\* attempt; its retry marker stays set and it makes no further refresh.
C38_RefreshFailureKeepsOriginalError ==
    [][\A r \in Reqs :
        (call[r].pc = "refresh" /\ call'[r] # call[r]
            /\ ~TruthyStr(call[r].fresh) /\ ~TruthyStr(call'[r].fresh)) =>
            /\ call'[r].pc = "return"
            /\ call'[r].resp = call[r].held /\ IsAuthStatus(call'[r].resp.status)
            /\ call'[r].sent = call[r].sent /\ call'[r].fetches = call[r].fetches
            /\ call'[r].refreshes = call[r].refreshes
            /\ call'[r].cfg.retry]_vars

\* A proxied request whose refresh failed has settled with the first attempt's answer.
C38_Witness ==
    \E r \in Reqs :
        LET c == call[r]
        IN /\ c.kind = "proxy" /\ c.pc = "return" /\ c.refreshes = 1 /\ c.sent = 1
           /\ ~TruthyStr(c.fresh) /\ c.cfg.retry
           /\ c.resp = c.held /\ IsAuthStatus(c.resp.status)

\* ---- the exported client ---------------------------------------------------------------
\* C39: once a connect() has returned the client, the `client` property of the module's
\* exports is that same client, the one the module connects and uses internally.
C39_ExportedClientIsConnectedClient ==
    \A p \in Callers :
        (proc[p].op = "connect" /\ CallOver(proc[p]) /\ proc[p].out = "value") =>
            (mstat.exported = proc[p].val /\ mstat.exported = client)

=============================================================================
